---- MODULE Spec2Model ----
(***************************************************************************)
(* ESP32 pH monitor firmware: calibration engine, persistence (Preferences *)
(* namespace "phcal"), trimmed-mean sampler and IIR smoother, in the three *)
(* iterations of the sketch:                                               *)
(*   "twopage"   src/linear_ph_twopage.ino  piecewise, /phv unsmoothed     *)
(*   "piecewise" src/unnamed/part_000       piecewise, /phv smoothed       *)
(*   "quadratic" src/unnamed/part_001       linear or quadratic            *)
(*                                                                         *)
(* Numbers.  The sketch computes in 32-bit floats.  Here a float is an     *)
(* exact rational <<n, d>> in lowest terms with d > 0, and NAN is <<0,0>>. *)
(* Arithmetic is exact: float rounding is not modelled.                    *)
(***************************************************************************)
EXTENDS Integers, Sequences, FiniteSets, TLC

VARIABLES
    variant,  \* which sketch runs
    pc,       \* "boot" before setup(), "idle" between requests, "saving" inside a save
    prefs,    \* the Preferences namespace "phcal" (survives a restart)
    g,        \* the calibration globals
    filt,     \* filtV_main / filtV
    req,      \* the request being served, or served last
    resp,     \* what server.send() sent last
    rd,       \* the last voltage read: trimmed mean, value returned, filter on entry
    nPut,     \* puts done by the save in progress
    depth,    \* readings folded into filt since it was last NAN
    losses    \* power losses inside a save so far

vars == <<variant, pc, prefs, g, filt, req, resp, rd, nPut, depth, losses>>

(* ------------------------------ floats -------------------------------- *)

RECURSIVE Gcd(_, _)
Gcd(a, b) == IF b = 0 THEN a ELSE Gcd(b, a % b)

IAbs(i) == IF i < 0 THEN -i ELSE i

\* the rational n/d (d # 0) in lowest terms, sign carried by the numerator
Rat(n, d) ==
    LET s == IF d < 0 THEN -1 ELSE 1
        c == Gcd(IAbs(n), IAbs(d))
    IN  <<(s * n) \div c, (s * d) \div c>>

NAN == <<0, 0>>
isnan(x) == x[2] = 0

Zero == <<0, 1>>

Add(x, y) ==
    LET c == Gcd(x[2], y[2])
    IN  Rat(x[1] * (y[2] \div c) + y[1] * (x[2] \div c), (x[2] \div c) * y[2])

Neg(x) == <<-x[1], x[2]>>
Sub(x, y) == Add(x, Neg(y))

Mul(x, y) ==
    LET a == Rat(x[1], y[2])
        b == Rat(y[1], x[2])
    IN  <<a[1] * b[1], a[2] * b[2]>>

\* x / y for y # 0
Div(x, y) == Mul(x, Rat(y[2], y[1]))

\* a/b < c/d for b, d > 0: by integer parts, then by the inverted fractional
\* parts (no product is formed, so nothing overflows)
RECURSIVE Lt4(_, _, _, _)
Lt4(a, b, c, d) ==
    LET qa == a \div b
        qc == c \div d
        ra == a % b
        rc == c % d
    IN  IF qa # qc THEN qa < qc
        ELSE IF rc = 0 THEN FALSE
        ELSE IF ra = 0 THEN TRUE
        ELSE Lt4(d, rc, b, ra)

Lt(x, y) == Lt4(x[1], x[2], y[1], y[2])
Le(x, y) == x = y \/ Lt(x, y)
Gt(x, y) == Lt(y, x)
Ge(x, y) == Le(y, x)

fabs(x) == <<IAbs(x[1]), x[2]>>

(* ----------------------------- constants ------------------------------ *)

PH7 == Rat(700, 100)
PH4 == Rat(401, 100)
PH9 == Rat(918, 100)

\* MAIN_ALPHA / IIR_ALPHA = 0.15f
MAIN_ALPHA == Rat(15, 100)

\* VOLTAGE_SCALE = 1.0f (part_000, part_001)
VOLTAGE_SCALE == Rat(1, 1)

\* the 0.01f of the "too close" checks and the 1e-9f of the solver
TooClose == Rat(1, 100)
SolverEps == Rat(1, 1000000000)

\* samples per trimmed-mean read with USE_INA226 = 1
N == 20

Piecewise == {"twopage", "piecewise"}
Variants == Piecewise \cup {"quadratic"}

(* ------------------------ Preferences ("phcal") ----------------------- *)

BoolKeys == {"two", "typ", "quad"}
FloatKeys == {"v7", "mL", "bL", "mH", "bH", "m", "b", "qa", "qb", "qc"}

\* a namespace: the keys present, and the value stored under each
\* (b and f are meaningful only at keys in has)
EmptyPrefs ==
    [has |-> {}, b |-> [k \in BoolKeys |-> FALSE], f |-> [k \in FloatKeys |-> Zero]]

isKey(p, k) == k \in p.has

\* variant for C13: an absent flag reads as false whatever default is passed
getBool_absentFalse(p, k, def) == IF isKey(p, k) THEN p.b[k] ELSE FALSE

getBool(p, k, def) == IF isKey(p, k) THEN p.b[k] ELSE def
getFloat(p, k, def) == IF isKey(p, k) THEN p.f[k] ELSE def

putBool(p, k, x) == [has |-> p.has \cup {k}, b |-> [p.b EXCEPT ![k] = x], f |-> p.f]
putFloat(p, k, x) == [has |-> p.has \cup {k}, b |-> p.b, f |-> [p.f EXCEPT ![k] = x]]

\* one put of a save function, w = <<key, value>>
put(p, w) == IF w[1] \in BoolKeys THEN putBool(p, w[1], w[2]) ELSE putFloat(p, w[1], w[2])

\* the first k puts of the sequence ws, in order
RECURSIVE putsUpTo(_, _, _)
putsUpTo(p, ws, k) == IF k = 0 THEN p ELSE put(putsUpTo(p, ws, k - 1), ws[k])

puts(p, ws) == putsUpTo(p, ws, Len(ws))

(* ------------------- piecewise sketches: calibration ------------------ *)

\* the calibration globals as initialised at start-up
GlobalsPW ==
    [useTwoLines |-> FALSE, typicalDirection |-> TRUE,
     v7_break |-> Rat(2100, 1000),
     mLow |-> Rat(-249, 100), bLow |-> Rat(104725, 10000),
     mHigh |-> Rat(-249, 100), bHigh |-> Rat(104725, 10000)]

loadCalibrationPW(gl, p) ==
    [useTwoLines |-> getBool(p, "two", FALSE),
     typicalDirection |-> getBool(p, "typ", TRUE),
     v7_break |-> getFloat(p, "v7", gl.v7_break),
     mLow |-> getFloat(p, "mL", gl.mLow),
     bLow |-> getFloat(p, "bL", gl.bLow),
     mHigh |-> getFloat(p, "mH", gl.mHigh),
     bHigh |-> getFloat(p, "bH", gl.bHigh)]

\* slope and intercept of the line through (Va, pHa) and (V7, 7.00)
slope(pHa, Va, V7) == Div(Sub(pHa, PH7), Sub(Va, V7))
\* variant for C11: the intercept with the wrong sign of m * V7
intercept_signError(m, V7) == Add(PH7, Mul(m, V7))

intercept(m, V7) == Sub(PH7, Mul(m, V7))

\* variant for C2: the save forgets the high-side intercept
saveOneLine_puts_noBH(V4, V7) ==
    LET m == slope(PH4, V4, V7)
        b == intercept(m, V7)
    IN  << <<"two", FALSE>>, <<"typ", Gt(V4, V7)>>, <<"v7", V7>>,
           <<"mL", m>>, <<"bL", b>>, <<"mH", m>> >>

saveOneLine_puts(V4, V7) ==
    LET m == slope(PH4, V4, V7)
        b == intercept(m, V7)
    IN  << <<"two", FALSE>>, <<"typ", Gt(V4, V7)>>, <<"v7", V7>>,
           <<"mL", m>>, <<"bL", b>>, <<"mH", m>>, <<"bH", b>> >>

\* variant for C18: the one-line save keeps the direction at its initial value
saveOneLine_globals_typicalAlways(V4, V7) ==
    LET m == slope(PH4, V4, V7)
        b == intercept(m, V7)
    IN  [useTwoLines |-> FALSE, typicalDirection |-> TRUE, v7_break |-> V7,
         mLow |-> m, bLow |-> b, mHigh |-> m, bHigh |-> b]

saveOneLine_globals(V4, V7) ==
    LET m == slope(PH4, V4, V7)
        b == intercept(m, V7)
    IN  [useTwoLines |-> FALSE, typicalDirection |-> Gt(V4, V7), v7_break |-> V7,
         mLow |-> m, bLow |-> b, mHigh |-> m, bHigh |-> b]

\* variant for C6: the save leaves the filter as it was
saveOneLine_keepFilter(st, V4, V7) ==
    [prefs |-> puts(st.prefs, saveOneLine_puts(V4, V7)),
     g |-> saveOneLine_globals(V4, V7),
     filt |-> st.filt]

\* variant for C17: only the low line is written, in the store and in memory
saveOneLine_lowOnly(st, V4, V7) ==
    [prefs |-> putsUpTo(st.prefs, saveOneLine_puts(V4, V7), 5),
     g |-> [saveOneLine_globals(V4, V7) EXCEPT !.mHigh = st.g.mHigh, !.bHigh = st.g.bHigh],
     filt |-> NAN]

\* st = [prefs, g, filt]: the store, the calibration globals, the filter
saveOneLine(st, V4, V7) ==
    [prefs |-> puts(st.prefs, saveOneLine_puts(V4, V7)),
     g |-> saveOneLine_globals(V4, V7),
     filt |-> NAN]

saveTwoLines_puts(V4, V7, V9) ==
    LET mL == slope(PH4, V4, V7)
        bL == intercept(mL, V7)
        mH == Div(Sub(PH7, PH9), Sub(V7, V9))
        bH == intercept(mH, V7)
    IN  << <<"two", TRUE>>, <<"typ", Gt(V4, V7)>>, <<"v7", V7>>,
           <<"mL", mL>>, <<"bL", bL>>, <<"mH", mH>>, <<"bH", bH>> >>

\* variant for C5: the direction is not inferred from V4 and V7
saveTwoLines_globals_typicalAlways(V4, V7, V9) ==
    LET mL == slope(PH4, V4, V7)
        bL == intercept(mL, V7)
        mH == Div(Sub(PH7, PH9), Sub(V7, V9))
        bH == intercept(mH, V7)
    IN  [useTwoLines |-> TRUE, typicalDirection |-> TRUE, v7_break |-> V7,
         mLow |-> mL, bLow |-> bL, mHigh |-> mH, bHigh |-> bH]

saveTwoLines_globals(V4, V7, V9) ==
    LET mL == slope(PH4, V4, V7)
        bL == intercept(mL, V7)
        mH == Div(Sub(PH7, PH9), Sub(V7, V9))
        bH == intercept(mH, V7)
    IN  [useTwoLines |-> TRUE, typicalDirection |-> Gt(V4, V7), v7_break |-> V7,
         mLow |-> mL, bLow |-> bL, mHigh |-> mH, bHigh |-> bH]

saveTwoLines(st, V4, V7, V9) ==
    [prefs |-> puts(st.prefs, saveTwoLines_puts(V4, V7, V9)),
     g |-> saveTwoLines_globals(V4, V7, V9),
     filt |-> NAN]

\* which line calculatePH_piecewise applies to v: "low" or "high"
\* variant for C4: the two directions exchanged
segment_backward(gl, v) ==
    IF ~gl.useTwoLines THEN "low"
    ELSE IF gl.typicalDirection
         THEN (IF Le(v, gl.v7_break) THEN "low" ELSE "high")
         ELSE (IF Ge(v, gl.v7_break) THEN "low" ELSE "high")

segment(gl, v) ==
    IF ~gl.useTwoLines THEN "low"
    ELSE IF gl.typicalDirection
         THEN (IF Ge(v, gl.v7_break) THEN "low" ELSE "high")
         ELSE (IF Le(v, gl.v7_break) THEN "low" ELSE "high")

lowLine(gl, v) == Add(Mul(gl.mLow, v), gl.bLow)
highLine(gl, v) == Add(Mul(gl.mHigh, v), gl.bHigh)

calculatePH_piecewise(gl, v) ==
    IF segment(gl, v) = "low" THEN lowLine(gl, v) ELSE highLine(gl, v)

(* ------------------ quadratic sketch: calibration --------------------- *)

GlobalsQ ==
    [useQuadratic |-> FALSE,
     linM |-> Rat(-249, 100), linB |-> Rat(104725, 10000),
     qa |-> Zero, qb |-> Rat(-249, 100), qc |-> Rat(104725, 10000)]

\* variant for C20: b without its minus sign
solveQuadraticFrom3Points_signError(x1, y1, x2, y2, x3, y3) ==
    LET d1 == Mul(Sub(x1, x2), Sub(x1, x3))
        d2 == Mul(Sub(x2, x1), Sub(x2, x3))
        d3 == Mul(Sub(x3, x1), Sub(x3, x2))
    IN  IF Lt(fabs(d1), SolverEps) \/ Lt(fabs(d2), SolverEps) \/ Lt(fabs(d3), SolverEps)
        THEN [ok |-> FALSE, a |-> Zero, b |-> Zero, c |-> Zero]
        ELSE LET A1 == Div(y1, d1)
                 A2 == Div(y2, d2)
                 A3 == Div(y3, d3)
             IN  [ok |-> TRUE,
                  a |-> Add(Add(A1, A2), A3),
                  b |-> Add(Add(Mul(A1, Add(x2, x3)), Mul(A2, Add(x1, x3))),
                            Mul(A3, Add(x1, x2))),
                  c |-> Add(Add(Mul(A1, Mul(x2, x3)), Mul(A2, Mul(x1, x3))),
                            Mul(A3, Mul(x1, x2)))]

\* the test on which solveQuadraticFrom3Points returns false
singular(x1, x2, x3) ==
    LET d1 == Mul(Sub(x1, x2), Sub(x1, x3))
        d2 == Mul(Sub(x2, x1), Sub(x2, x3))
        d3 == Mul(Sub(x3, x1), Sub(x3, x2))
    IN  Lt(fabs(d1), SolverEps) \/ Lt(fabs(d2), SolverEps) \/ Lt(fabs(d3), SolverEps)

\* [ok, a, b, c]; a, b, c are written only when ok
solveQuadraticFrom3Points(x1, y1, x2, y2, x3, y3) ==
    LET d1 == Mul(Sub(x1, x2), Sub(x1, x3))
        d2 == Mul(Sub(x2, x1), Sub(x2, x3))
        d3 == Mul(Sub(x3, x1), Sub(x3, x2))
    IN  IF singular(x1, x2, x3)
        THEN [ok |-> FALSE, a |-> Zero, b |-> Zero, c |-> Zero]
        ELSE LET A1 == Div(y1, d1)
                 A2 == Div(y2, d2)
                 A3 == Div(y3, d3)
             IN  [ok |-> TRUE,
                  a |-> Add(Add(A1, A2), A3),
                  b |-> Neg(Add(Add(Mul(A1, Add(x2, x3)), Mul(A2, Add(x1, x3))),
                                Mul(A3, Add(x1, x2)))),
                  c |-> Add(Add(Mul(A1, Mul(x2, x3)), Mul(A2, Mul(x1, x3))),
                            Mul(A3, Mul(x1, x2)))]

calculatePH(gl, v) ==
    IF gl.useQuadratic
    THEN Add(Add(Mul(Mul(gl.qa, v), v), Mul(gl.qb, v)), gl.qc)
    ELSE Add(Mul(gl.linM, v), gl.linB)

loadCalibrationQ(gl, p) ==
    [useQuadratic |-> getBool(p, "quad", FALSE),
     linM |-> getFloat(p, "m", gl.linM),
     linB |-> getFloat(p, "b", gl.linB),
     qa |-> getFloat(p, "qa", gl.qa),
     qb |-> getFloat(p, "qb", gl.qb),
     qc |-> getFloat(p, "qc", gl.qc)]

\* variant for C22: slope and intercept stored under each other's key
saveLinear_puts_swapped(m, b) == << <<"quad", FALSE>>, <<"m", b>>, <<"b", m>> >>

saveLinear_puts(m, b) == << <<"quad", FALSE>>, <<"m", m>>, <<"b", b>> >>

\* variant for C24: the two-point save also returns the quadratic
\* coefficients to their defaults, in the store and in memory
saveLinear_clearsQuadratic(st, m, b) ==
    [prefs |-> puts(st.prefs, saveLinear_puts(m, b) \o
                    << <<"qa", GlobalsQ.qa>>, <<"qb", GlobalsQ.qb>>, <<"qc", GlobalsQ.qc>> >>),
     g |-> [GlobalsQ EXCEPT !.linM = m, !.linB = b],
     filt |-> NAN]

saveLinear(st, m, b) ==
    [prefs |-> puts(st.prefs, saveLinear_puts(m, b)),
     g |-> [st.g EXCEPT !.useQuadratic = FALSE, !.linM = m, !.linB = b],
     filt |-> NAN]

saveQuadratic_puts(a, b, c) == << <<"quad", TRUE>>, <<"qa", a>>, <<"qb", b>>, <<"qc", c>> >>

\* variant for C14: the save leaves the discriminant in memory as it was
saveQuadratic_keepMode(st, a, b, c) ==
    [prefs |-> puts(st.prefs, saveQuadratic_puts(a, b, c)),
     g |-> [st.g EXCEPT !.qa = a, !.qb = b, !.qc = c],
     filt |-> NAN]

saveQuadratic(st, a, b, c) ==
    [prefs |-> puts(st.prefs, saveQuadratic_puts(a, b, c)),
     g |-> [st.g EXCEPT !.useQuadratic = TRUE, !.qa = a, !.qb = b, !.qc = c],
     filt |-> NAN]

(* ------------------------- sampler and smoother ----------------------- *)

\* the loop of readVoltageRawTrimmed from sample i on; acc = [sum, mn, mx] are
\* the running sum, minimum and maximum, and the result is acc after sample N.
\* (The test on next is always true: it makes TLC compute the running values
\* sample by sample, as the loop does, instead of all at once at the end.)
RECURSIVE sampleLoop(_, _, _)
sampleLoop(samples, i, acc) ==
    IF i > N THEN acc
    ELSE LET a == samples[i]
             next == [sum |-> Add(acc.sum, a),
                      mn |-> IF Lt(a, acc.mn) THEN a ELSE acc.mn,
                      mx |-> IF Gt(a, acc.mx) THEN a ELSE acc.mx]
         IN  IF next = next THEN sampleLoop(samples, i + 1, next) ELSE acc

\* variant for C16: the sum less minimum and maximum divided by N
trimmedMean_overN(samples) ==
    LET s == sampleLoop(samples, 1,
                        [sum |-> Zero, mn |-> Rat(1000000000, 1), mx |-> Rat(-1000000000, 1)])
    IN  Div(Sub(Sub(s.sum, s.mn), s.mx), Rat(N, 1))

\* INA226 build (USE_INA226 = 1): samples is the N bus voltages read
trimmedMean(samples) ==
    LET s == sampleLoop(samples, 1,
                        [sum |-> Zero, mn |-> Rat(1000000000, 1), mx |-> Rat(-1000000000, 1)])
    IN  Div(Sub(Sub(s.sum, s.mn), s.mx), Rat(N - 2, 1))

\* ADC build (USE_INA226 = 0): counts is the N_ADC readings of analogRead,
\* 12-bit; sum is a uint32_t and stays below 2^32, mn and mx are uint16_t
N_ADC == 25
ADC_VREF == Rat(330, 100)
ADC_MAX == Rat(4095, 1)

RECURSIVE adcLoop(_, _, _)
adcLoop(counts, i, acc) ==
    IF i > N_ADC THEN acc
    ELSE LET a == counts[i]
             next == [sum |-> acc.sum + a,
                      mn |-> IF a < acc.mn THEN a ELSE acc.mn,
                      mx |-> IF a > acc.mx THEN a ELSE acc.mx]
         IN  IF next = next THEN adcLoop(counts, i + 1, next) ELSE acc

readVoltageRawTrimmedADC(counts) ==
    LET s == adcLoop(counts, 1, [sum |-> 0, mn |-> 4095, mx |-> 0])
        avgCounts == Div(Rat(s.sum - s.mn - s.mx, 1), Rat(N_ADC - 2, 1))
    IN  Mul(Div(avgCounts, ADC_MAX), ADC_VREF)

\* what the sensor returns over the N samples of one read: steady at x, or
\* at x with the samples at the positions in S reading y
Steady(x) == [i \in 1..N |-> x]
Spiked(x, y, S) == [i \in 1..N |-> IF i \in S THEN y ELSE x]

SampleSeqs ==
    {Steady(Rat(2, 1)),
     Spiked(Rat(2, 1), Rat(38, 10), {N}),
     Spiked(Rat(2, 1), Rat(38, 10), {3, 7})}

\* trimmedMean over the sample sequences of the model, computed once
TrimmedMeans == [s \in SampleSeqs |-> trimmedMean(s)]

readVoltageRawTrimmed(samples) == TrimmedMeans[samples]

\* the IIR step on filter state f with trimmed mean v: [filt, ret]
\* variant for C7: an uninitialised filter starts from zero
smooth_seedZero(f, v) ==
    LET f1 == IF isnan(f) THEN Zero ELSE f
        f2 == Add(f1, Mul(MAIN_ALPHA, Sub(v, f1)))
    IN  [filt |-> f2, ret |-> f2]

smooth(f, v) ==
    LET f1 == IF isnan(f) THEN v ELSE f
        f2 == Add(f1, Mul(MAIN_ALPHA, Sub(v, f1)))
    IN  [filt |-> f2, ret |-> f2]

readVoltageMainSmoothed(f, samples) == smooth(f, readVoltageRawTrimmed(samples))

\* part_000 / part_001: one function samples, scales and smooths
readPHVoltage(f, samples) ==
    smooth(f, Mul(readVoltageRawTrimmed(samples), VOLTAGE_SCALE))

(* ------------------------------ handlers ------------------------------ *)
(* A handler takes st = [prefs, g, filt] and the request rq and yields    *)
(* [prefs, g, filt, code, text]: the state it leaves and what it sends.   *)
(* The text of a "Missing ..." reply (the sketches differ in the order in *)
(* which they name the arguments) and the coefficients appended to the    *)
(* quadratic sketch's "Saved ..." replies are left out of text.           *)

hasArg(rq, a) == a \in rq.has

send(st, code, text) ==
    [prefs |-> st.prefs, g |-> st.g, filt |-> st.filt, code |-> code, text |-> text]

\* variant for C8: a difference of exactly 0.01 counts as too close
tooClose_inclusive(x, y) == Le(fabs(Sub(x, y)), TooClose)

tooClose(x, y) == Lt(fabs(Sub(x, y)), TooClose)

\* variant for C1: the too-close branch saves before it replies
handleSetCal2PW_saveThenCheck(st, rq) ==
    IF ~hasArg(rq, "v4") \/ ~hasArg(rq, "v7")
    THEN send(st, 400, "Missing")
    ELSE IF Le(rq.v4, Zero) \/ Le(rq.v7, Zero)
    THEN send(st, 400, "Voltages must be > 0")
    ELSE IF tooClose(rq.v4, rq.v7)
    THEN send(saveOneLine(st, rq.v4, rq.v7), 400, "v4 and v7 too close (bad calibration)")
    ELSE send(saveOneLine(st, rq.v4, rq.v7), 200, "Saved ONE line using pH 4.01 & 7.00")

handleSetCal2PW(st, rq) ==
    IF ~hasArg(rq, "v4") \/ ~hasArg(rq, "v7")
    THEN send(st, 400, "Missing")
    ELSE IF Le(rq.v4, Zero) \/ Le(rq.v7, Zero)
    THEN send(st, 400, "Voltages must be > 0")
    ELSE IF tooClose(rq.v4, rq.v7)
    THEN send(st, 400, "v4 and v7 too close (bad calibration)")
    ELSE send(saveOneLine(st, rq.v4, rq.v7), 200, "Saved ONE line using pH 4.01 & 7.00")

\* variant for C9: the V9-V4 pair is not compared
handleSetCal3PW_twoPairs(st, rq) ==
    IF ~hasArg(rq, "v4") \/ ~hasArg(rq, "v7") \/ ~hasArg(rq, "v9")
    THEN send(st, 400, "Missing")
    ELSE IF Le(rq.v4, Zero) \/ Le(rq.v7, Zero) \/ Le(rq.v9, Zero)
    THEN send(st, 400, "Voltages must be > 0")
    ELSE IF tooClose(rq.v4, rq.v7) \/ tooClose(rq.v9, rq.v7)
    THEN send(st, 400, "Two voltages are too close (bad 3-point)")
    ELSE send(saveTwoLines(st, rq.v4, rq.v7, rq.v9), 200,
              "Saved TWO lines (4->7) and (7->9.18)")

handleSetCal3PW(st, rq) ==
    IF ~hasArg(rq, "v4") \/ ~hasArg(rq, "v7") \/ ~hasArg(rq, "v9")
    THEN send(st, 400, "Missing")
    ELSE IF Le(rq.v4, Zero) \/ Le(rq.v7, Zero) \/ Le(rq.v9, Zero)
    THEN send(st, 400, "Voltages must be > 0")
    ELSE IF tooClose(rq.v4, rq.v7) \/ tooClose(rq.v9, rq.v7) \/ tooClose(rq.v9, rq.v4)
    THEN send(st, 400, "Two voltages are too close (bad 3-point)")
    ELSE send(saveTwoLines(st, rq.v4, rq.v7, rq.v9), 200,
              "Saved TWO lines (4->7) and (7->9.18)")

handleSetCal2Q(st, rq) ==
    IF ~hasArg(rq, "v7") \/ ~hasArg(rq, "v4")
    THEN send(st, 400, "Missing")
    ELSE IF Le(rq.v7, Zero) \/ Le(rq.v4, Zero)
    THEN send(st, 400, "Voltages must be > 0")
    ELSE IF tooClose(rq.v4, rq.v7)
    THEN send(st, 400, "v4 and v7 too close (bad calibration)")
    ELSE LET m == slope(PH4, rq.v4, rq.v7)
             b == intercept(m, rq.v7)
         IN  send(saveLinear(st, m, b), 200, "Saved 2-point")

\* variant for C10: no pairwise comparison, the solver is the only guard
handleSetCal3Q_solverOnly(st, rq) ==
    IF ~hasArg(rq, "v7") \/ ~hasArg(rq, "v4") \/ ~hasArg(rq, "v9")
    THEN send(st, 400, "Missing")
    ELSE IF Le(rq.v7, Zero) \/ Le(rq.v4, Zero) \/ Le(rq.v9, Zero)
    THEN send(st, 400, "Voltages must be > 0")
    ELSE LET q == solveQuadraticFrom3Points(rq.v4, PH4, rq.v7, PH7, rq.v9, PH9)
         IN  IF ~q.ok
             THEN send(st, 400, "Could not solve quadratic (check voltages)")
             ELSE send(saveQuadratic(st, q.a, q.b, q.c), 200, "Saved 3-point")

\* variant for C23: V9 is not compared with V4
handleSetCal3Q_twoPairs(st, rq) ==
    IF ~hasArg(rq, "v7") \/ ~hasArg(rq, "v4") \/ ~hasArg(rq, "v9")
    THEN send(st, 400, "Missing")
    ELSE IF Le(rq.v7, Zero) \/ Le(rq.v4, Zero) \/ Le(rq.v9, Zero)
    THEN send(st, 400, "Voltages must be > 0")
    ELSE IF tooClose(rq.v4, rq.v7) \/ tooClose(rq.v9, rq.v7)
    THEN send(st, 400, "Two voltages are too close (bad 3-point)")
    ELSE LET q == solveQuadraticFrom3Points(rq.v4, PH4, rq.v7, PH7, rq.v9, PH9)
         IN  IF ~q.ok
             THEN send(st, 400, "Could not solve quadratic (check voltages)")
             ELSE send(saveQuadratic(st, q.a, q.b, q.c), 200, "Saved 3-point")

handleSetCal3Q(st, rq) ==
    IF ~hasArg(rq, "v7") \/ ~hasArg(rq, "v4") \/ ~hasArg(rq, "v9")
    THEN send(st, 400, "Missing")
    ELSE IF Le(rq.v7, Zero) \/ Le(rq.v4, Zero) \/ Le(rq.v9, Zero)
    THEN send(st, 400, "Voltages must be > 0")
    ELSE IF tooClose(rq.v4, rq.v7) \/ tooClose(rq.v9, rq.v7) \/ tooClose(rq.v9, rq.v4)
    THEN send(st, 400, "Two voltages are too close (bad 3-point)")
    ELSE LET q == solveQuadraticFrom3Points(rq.v4, PH4, rq.v7, PH7, rq.v9, PH9)
         IN  IF ~q.ok
             THEN send(st, 400, "Could not solve quadratic (check voltages)")
             ELSE send(saveQuadratic(st, q.a, q.b, q.c), 200, "Saved 3-point")

\* part_000 only: the unfinished calculatePH left in the sketch, which no
\* handler calls (handlePH calls calculatePH_piecewise)
calculatePH_placeholder(gl, v) ==
    IF ~gl.useTwoLines THEN Add(Mul(gl.mLow, v), gl.bLow) ELSE Zero

\* the handler the sketch vr registers for /setcal2 and for /setcal3
handleSetCal2(vr, st, rq) ==
    IF vr \in Piecewise THEN handleSetCal2PW(st, rq) ELSE handleSetCal2Q(st, rq)

handleSetCal3(vr, st, rq) ==
    IF vr \in Piecewise THEN handleSetCal3PW(st, rq) ELSE handleSetCal3Q(st, rq)

\* the globals' initialisers, and setup()'s loadCalibration(), per sketch
Globals(vr) == IF vr \in Piecewise THEN GlobalsPW ELSE GlobalsQ

loadCalibration(vr, gl, p) ==
    IF vr \in Piecewise THEN loadCalibrationPW(gl, p) ELSE loadCalibrationQ(gl, p)

\* the voltage read behind /ph and behind /phv: [filt, ret]
readForPH(vr, f, samples) ==
    IF vr = "twopage" THEN readVoltageMainSmoothed(f, samples)
    ELSE readPHVoltage(f, samples)

\* variant for C21: /phv reads through the smoother in every sketch
readForPHV_smoothed(vr, f, samples) ==
    IF vr = "twopage" THEN readVoltageMainSmoothed(f, samples)
    ELSE readPHVoltage(f, samples)

readForPHV(vr, f, samples) ==
    IF vr = "twopage" THEN [filt |-> f, ret |-> readVoltageRawTrimmed(samples)]
    ELSE readPHVoltage(f, samples)

\* the pH handlePH computes from the voltage v it read
evaluate(vr, gl, v) ==
    IF vr \in Piecewise THEN calculatePH_piecewise(gl, v) ELSE calculatePH(gl, v)

\* the first n decimal digits of r/d (0 <= r < d) appended to acc, and the
\* remainder they leave
RECURSIVE fraction(_, _, _, _)
fraction(r, d, n, acc) ==
    IF n = 0 THEN [digits |-> acc, rem |-> r]
    ELSE fraction((10 * r) % d, d, n - 1, Append(acc, (10 * r) \div d))

\* a digit sequence plus one unit in its last place: [digits, carry]
RECURSIVE roundUp(_)
roundUp(ds) ==
    IF ds = <<>> THEN [digits |-> <<>>, carry |-> 1]
    ELSE IF ds[Len(ds)] < 9
    THEN [digits |-> [ds EXCEPT ![Len(ds)] = ds[Len(ds)] + 1], carry |-> 0]
    ELSE LET up == roundUp(SubSeq(ds, 1, Len(ds) - 1))
         IN  [digits |-> Append(up.digits, 0), carry |-> up.carry]

\* String(x, decimalPlaces): the sign, the integer part and decimalPlaces
\* digits of |x| rounded half up in the last place
String(x, decimalPlaces) ==
    IF isnan(x) THEN [nan |-> TRUE, neg |-> FALSE, int |-> 0, frac |-> <<>>]
    ELSE LET p == IAbs(x[1])
             f == fraction(p % x[2], x[2], decimalPlaces, <<>>)
             up == IF 2 * f.rem >= x[2] THEN roundUp(f.digits)
                   ELSE [digits |-> f.digits, carry |-> 0]
         IN  [nan |-> FALSE, neg |-> x[1] < 0,
              int |-> (p \div x[2]) + up.carry, frac |-> up.digits]

\* the body of the /cal reply: the globals it prints, each as printed
handleCalJson(vr, gl) ==
    IF vr = "quadratic"
    THEN [quad |-> gl.useQuadratic,
          m |-> String(gl.linM, 8), b |-> String(gl.linB, 8),
          qa |-> String(gl.qa, 10), qb |-> String(gl.qb, 8), qc |-> String(gl.qc, 8)]
    ELSE IF vr = "piecewise"
    THEN [two |-> gl.useTwoLines, typ |-> gl.typicalDirection,
          v7 |-> String(gl.v7_break, 4),
          mL |-> String(gl.mLow, 8), bL |-> String(gl.bLow, 8),
          mH |-> String(gl.mHigh, 8), bH |-> String(gl.bHigh, 8)]
    ELSE [two |-> gl.useTwoLines,
          v7 |-> String(gl.v7_break, 4),
          mL |-> String(gl.mLow, 8), bL |-> String(gl.bLow, 8),
          mH |-> String(gl.mHigh, 8), bH |-> String(gl.bHigh, 8)]

(* ------------------------------- inputs ------------------------------- *)

\* most smoothed readings folded into the filter before it is reset
MaxDepth == 2
\* most power losses inside a save
MaxLosses == 1

\* the voltages a calibration request may carry for each argument
\* (0.000, 2.000, 2.005, 2.010 and 3.000 V)
V4s == {Zero, Rat(2, 1), Rat(3, 1)}
V7s == {Zero, Rat(2005, 1000), Rat(201, 100)}
V9s == {Zero, Rat(2, 1), Rat(3, 1)}

ArgNames == {"v4", "v7", "v9"}

\* a request for route with the arguments in h present; an absent one reads as 0
mkReq(route, h, a4, a7, a9) ==
    [route |-> route, has |-> h,
     v4 |-> IF "v4" \in h THEN a4 ELSE Zero,
     v7 |-> IF "v7" \in h THEN a7 ELSE Zero,
     v9 |-> IF "v9" \in h THEN a9 ELSE Zero]

NoReq == mkReq("none", {}, Zero, Zero, Zero)

Requests2 ==
    {mkReq("/setcal2", {"v4", "v7"}, a[1], a[2], Zero) : a \in V4s \X V7s}
    \cup {mkReq("/setcal2", h, Rat(2, 1), Rat(3, 1), Zero) : h \in SUBSET {"v4", "v7"}}

Requests3 ==
    {mkReq("/setcal3", ArgNames, a[1], a[2], a[3]) : a \in V4s \X V7s \X V9s}
    \cup {mkReq("/setcal3", h, Rat(3, 1), Rat(201, 100), Rat(2, 1)) : h \in SUBSET ArgNames}

NoResp == [code |-> 0, text |-> ""]
NoRead == [raw |-> NAN, out |-> NAN, seeded |-> FALSE]

(* ------------------------------- actions ------------------------------ *)

st == [prefs |-> prefs, g |-> g, filt |-> filt]

Init ==
    /\ variant \in Variants
    /\ pc = "boot"
    /\ prefs = EmptyPrefs
    /\ g = Globals(variant)
    /\ filt = NAN
    /\ req = NoReq
    /\ resp = NoResp
    /\ rd = NoRead
    /\ nPut = 0
    /\ depth = 0
    /\ losses = 0

\* setup(): loadCalibration(), then the server starts
Setup ==
    /\ pc = "boot"
    /\ g' = loadCalibration(variant, g, prefs)
    /\ pc' = "idle"
    /\ UNCHANGED <<variant, prefs, filt, req, resp, rd, nPut, depth, losses>>

\* a restart between requests: the globals are initialised again
Reboot ==
    /\ pc = "idle"
    /\ pc' = "boot"
    /\ g' = Globals(variant)
    /\ filt' = NAN
    /\ depth' = 0
    /\ req' = NoReq
    /\ resp' = NoResp
    /\ rd' = NoRead
    /\ UNCHANGED <<variant, prefs, nPut, losses>>

\* the state a fit handler's result out leaves
Served(rq, out) ==
    /\ req' = rq
    /\ prefs' = out.prefs
    /\ g' = out.g
    /\ filt' = out.filt
    /\ depth' = IF isnan(out.filt) THEN 0 ELSE depth
    /\ resp' = [code |-> out.code, text |-> out.text]
    /\ rd' = NoRead
    /\ UNCHANGED <<variant, pc, nPut, losses>>

HandleSetCal2 ==
    /\ pc = "idle"
    /\ \E rq \in Requests2 : Served(rq, handleSetCal2(variant, st, rq))

HandleSetCal3 ==
    /\ pc = "idle"
    /\ \E rq \in Requests3 : Served(rq, handleSetCal3(variant, st, rq))

\* the trimmed mean a read works from
rawVoltage(vr, samples) ==
    IF vr = "twopage" THEN readVoltageRawTrimmed(samples)
    ELSE Mul(readVoltageRawTrimmed(samples), VOLTAGE_SCALE)

\* variant for C15: the smoother is cleared once the pH has been computed
HandlePH_clearsFilter ==
    /\ pc = "idle"
    /\ depth < MaxDepth
    /\ \E samples \in SampleSeqs :
         LET r == readForPH(variant, filt, samples)
         IN  /\ filt' = NAN
             /\ rd' = [raw |-> rawVoltage(variant, samples), out |-> r.ret,
                       seeded |-> isnan(filt)]
    /\ depth' = depth + 1
    /\ req' = mkReq("/ph", {}, Zero, Zero, Zero)
    /\ resp' = [code |-> 200, text |-> "pH"]
    /\ UNCHANGED <<variant, pc, prefs, g, nPut, losses>>

HandlePH ==
    /\ pc = "idle"
    /\ depth < MaxDepth
    /\ \E samples \in SampleSeqs :
         LET r == readForPH(variant, filt, samples)
         IN  /\ filt' = r.filt
             /\ rd' = [raw |-> rawVoltage(variant, samples), out |-> r.ret,
                       seeded |-> isnan(filt)]
    /\ depth' = depth + 1
    /\ req' = mkReq("/ph", {}, Zero, Zero, Zero)
    /\ resp' = [code |-> 200, text |-> "pH"]
    /\ UNCHANGED <<variant, pc, prefs, g, nPut, losses>>

HandlePHV ==
    /\ pc = "idle"
    /\ variant = "twopage" \/ depth < MaxDepth
    /\ \E samples \in SampleSeqs :
         LET r == readForPHV(variant, filt, samples)
         IN  /\ filt' = r.filt
             /\ rd' = [raw |-> rawVoltage(variant, samples), out |-> r.ret,
                       seeded |-> isnan(filt)]
    /\ depth' = IF variant = "twopage" THEN depth ELSE depth + 1
    /\ req' = mkReq("/phv", {}, Zero, Zero, Zero)
    /\ resp' = [code |-> 200, text |-> "V"]
    /\ UNCHANGED <<variant, pc, prefs, g, nPut, losses>>

\* the status view: sends the globals, changes nothing
HandleCalJson ==
    /\ pc = "idle"
    /\ req' = mkReq("/cal", {}, Zero, Zero, Zero)
    /\ resp' = [code |-> 200, text |-> "json"]
    /\ rd' = NoRead
    /\ UNCHANGED <<variant, pc, prefs, g, filt, nPut, depth, losses>>

Next ==
    \/ Setup
    \/ Reboot
    \/ HandleSetCal2
    \/ HandleSetCal3
    \/ HandlePH
    \/ HandlePHV
    \/ HandleCalJson

Spec == Init /\ [][Next]_vars

(* ----------------- saves interrupted by a loss of power ---------------- *)
(* The same fit handlers, with the save function taken one Preferences    *)
(* put at a time (each put is committed to flash on its own), so that the  *)
(* device can lose power between two puts.                                 *)

handleSetCal(vr, s, rq) ==
    IF rq.route = "/setcal2" THEN handleSetCal2(vr, s, rq) ELSE handleSetCal3(vr, s, rq)

\* the puts of the save function an accepted request rq reaches
pendingPuts(vr, rq) ==
    IF vr \in Piecewise
    THEN IF rq.route = "/setcal2"
         THEN saveOneLine_puts(rq.v4, rq.v7)
         ELSE saveTwoLines_puts(rq.v4, rq.v7, rq.v9)
    ELSE IF rq.route = "/setcal2"
         THEN LET m == slope(PH4, rq.v4, rq.v7)
              IN  saveLinear_puts(m, intercept(m, rq.v7))
         ELSE LET q == solveQuadraticFrom3Points(rq.v4, PH4, rq.v7, PH7, rq.v9, PH9)
              IN  saveQuadratic_puts(q.a, q.b, q.c)

\* a fit request arrives: rejected at once, or accepted and the save begins
BeginFit ==
    /\ pc = "idle"
    /\ \E rq \in Requests2 \cup Requests3 :
         LET out == handleSetCal(variant, st, rq)
         IN  IF out.code = 200
             THEN /\ req' = rq
                  /\ pc' = "saving"
                  /\ nPut' = 0
                  /\ resp' = NoResp
                  /\ rd' = NoRead
                  /\ UNCHANGED <<variant, prefs, g, filt, depth, losses>>
             ELSE /\ Served(rq, out)

PutStep ==
    /\ pc = "saving"
    /\ nPut < Len(pendingPuts(variant, req))
    /\ prefs' = put(prefs, pendingPuts(variant, req)[nPut + 1])
    /\ nPut' = nPut + 1
    /\ UNCHANGED <<variant, pc, g, filt, req, resp, rd, depth, losses>>

\* after the last put: the globals, the filter reset and the reply
FinishSave ==
    /\ pc = "saving"
    /\ nPut = Len(pendingPuts(variant, req))
    /\ LET out == handleSetCal(variant, st, req)
       IN  /\ g' = out.g
           /\ filt' = out.filt
           /\ resp' = [code |-> out.code, text |-> out.text]
    /\ pc' = "idle"
    /\ nPut' = 0
    /\ depth' = 0
    /\ UNCHANGED <<variant, prefs, req, rd, losses>>

\* power is lost inside a save and the device starts again
PowerLoss ==
    /\ pc = "saving"
    /\ losses < MaxLosses
    /\ losses' = losses + 1
    /\ pc' = "boot"
    /\ g' = Globals(variant)
    /\ filt' = NAN
    /\ depth' = 0
    /\ nPut' = 0
    /\ req' = NoReq
    /\ resp' = NoResp
    /\ rd' = NoRead
    /\ UNCHANGED <<variant, prefs>>

NextLoss ==
    \/ Setup
    \/ Reboot
    \/ BeginFit
    \/ PutStep
    \/ FinishSave
    \/ PowerLoss

SpecLoss == Init /\ [][NextLoss]_vars

(* ---------------------- fits on reference voltages -------------------- *)
(* The fit handlers applied to buffer voltages as a user would enter them *)
(* on the calibration page: V7 between V4 and V9 in either direction, and *)
(* V9 on the same side of V7 as V4, which the handlers also accept.       *)

CalV4s == {Rat(2, 1), Rat(26, 10)}
CalV7s == {Rat(201, 100), Rat(21, 10)}
CalV9s == {Rat(18, 10), Rat(3, 1)}

CalRequests2 ==
    {mkReq("/setcal2", {"v4", "v7"}, a[1], a[2], Zero) : a \in CalV4s \X CalV7s}

CalRequests3 ==
    {mkReq("/setcal3", ArgNames, a[1], a[2], a[3]) : a \in CalV4s \X CalV7s \X CalV9s}

FitTwoPoint ==
    /\ pc = "idle"
    /\ \E rq \in CalRequests2 : Served(rq, handleSetCal2(variant, st, rq))

FitThreePoint ==
    /\ pc = "idle"
    /\ \E rq \in CalRequests3 : Served(rq, handleSetCal3(variant, st, rq))

NextFit ==
    \/ Setup
    \/ Reboot
    \/ FitTwoPoint
    \/ FitThreePoint

SpecFit == Init /\ [][NextFit]_vars

(* ============================== claims ================================ *)

FitRoutes == {"/setcal2", "/setcal3"}

\* the replies, by the error kind they stand for
MsgInvalidInput == "Voltages must be > 0"
MsgDegenerate2 == "v4 and v7 too close (bad calibration)"
MsgDegenerate3 == "Two voltages are too close (bad 3-point)"
MsgSingular == "Could not solve quadratic (check voltages)"

FitSaved == req.route \in FitRoutes /\ resp.code = 200

\* what loadCalibration() yields at the next start
Reloaded == loadCalibration(variant, Globals(variant), prefs)

\* voltages at which evaluation is examined: below, at and above each breakpoint
EvalVolts ==
    {Rat(1, 1), Rat(2, 1), Rat(2005, 1000), Rat(201, 100), Rat(21, 10), Rat(3, 1), Rat(4, 1)}

\* the request just served was answered from a smoothed read
SmoothedRead == req.route = "/ph" \/ (req.route = "/phv" /\ variant # "twopage")

(* C1: a fit that is rejected (missing argument, voltage <= 0, voltages   *)
(* closer than 0.01, unsolvable quadratic) leaves the calibration globals *)
(* and every key of the store exactly as they were before the request.    *)
C1_RejectedFitChangesNothing ==
    [][(req'.route \in FitRoutes /\ resp'.code = 400) => (g' = g /\ prefs' = prefs)]_vars

\* a two-point fit was rejected as too close while a two-line model was active
C1_Witness ==
    /\ variant = "twopage"
    /\ req.route = "/setcal2"
    /\ resp.text = MsgDegenerate2
    /\ g.useTwoLines
    /\ "mH" \in prefs.has

(* C2: right after a successful fit, loadCalibration() run on freshly     *)
(* initialised globals (a restart) gives exactly the globals in memory.   *)
C2_PersistLoadRoundTrip == FitSaved => Reloaded = g

\* a two-point fit saved after an earlier three-point fit, quadratic sketch
C2_Witness ==
    /\ variant = "quadratic"
    /\ req.route = "/setcal2"
    /\ resp.code = 200
    /\ g.qa # Zero
    /\ "qa" \in prefs.has

(* C3: at every point inside a save, what loadCalibration() would yield   *)
(* after a restart is either the complete model held before the save or   *)
(* the complete model being saved.                                        *)
C3_AllOrNothing ==
    pc = "saving" => (Reloaded = g \/ Reloaded = handleSetCal(variant, st, req).g)

(* C4: in the two-line state evaluation uses the low line when            *)
(* v >= v7_break and the high line otherwise if the direction flag is      *)
(* typical, and the low line when v <= v7_break and the high line          *)
(* otherwise if it is inverted; in the one-line state it uses the low      *)
(* line whatever the flag and the breakpoint.                              *)
C4_SegmentSelection ==
    variant \in Piecewise =>
        \A v \in EvalVolts :
            LET low == IF ~g.useTwoLines THEN TRUE
                       ELSE IF g.typicalDirection THEN Ge(v, g.v7_break)
                       ELSE Le(v, g.v7_break)
            IN  /\ segment(g, v) = (IF low THEN "low" ELSE "high")
                /\ calculatePH_piecewise(g, v) =
                       IF low THEN Add(Mul(g.mLow, v), g.bLow)
                       ELSE Add(Mul(g.mHigh, v), g.bHigh)

\* an inverted two-line model whose lines differ, with voltages on both sides
C4_Witness ==
    /\ variant \in Piecewise
    /\ pc = "idle"
    /\ g.useTwoLines
    /\ ~g.typicalDirection
    /\ g.mLow # g.mHigh
    /\ \E v \in EvalVolts : Lt(v, g.v7_break)
    /\ \E v \in EvalVolts : Gt(v, g.v7_break)

\* the two-line model just built from V4, V7, V9 is the active one
BuiltTwoLines == variant \in Piecewise /\ req.route = "/setcal3" /\ resp.code = 200

(* C5 as stated: a model built with V4 > V7 sends every v >= V7 to the    *)
(* low line, one built with V4 < V7 sends every v >= V7 (v = V7 included)  *)
(* to the high line.                                                       *)
C5_OppositeRoutingIncludingBreakpoint ==
    BuiltTwoLines =>
        \A v \in EvalVolts :
            Ge(v, req.v7) =>
                segment(g, v) = (IF Gt(req.v4, req.v7) THEN "low" ELSE "high")

(* C5 amended: a model built with V4 > V7 sends v >= V7 to the low line   *)
(* and v < V7 to the high line; one built with V4 < V7 sends v > V7 to the *)
(* high line and v <= V7 to the low line. The two route oppositely for     *)
(* every v # V7 and both use the low line at v = V7.                       *)
C5_OppositeRoutingOffBreakpoint ==
    BuiltTwoLines =>
        \A v \in EvalVolts :
            segment(g, v) =
                IF Gt(req.v4, req.v7)
                THEN (IF Lt(v, req.v7) THEN "high" ELSE "low")
                ELSE (IF Gt(v, req.v7) THEN "high" ELSE "low")

\* an inverted model with breakpoint 2.010 V (the typical model with the
\* same breakpoint is built from V4 = 3.000)
C5_Witness ==
    /\ BuiltTwoLines
    /\ Lt(req.v4, req.v7)
    /\ g.v7_break = Rat(201, 100)
    /\ Rat(201, 100) \in EvalVolts

(* C6: after every successful fit the filter is NAN, and the first        *)
(* smoothed reading taken from a NAN filter is the trimmed mean of that    *)
(* reading.                                                                *)
C6_FitResetsSmoother ==
    /\ FitSaved => (isnan(filt) /\ depth = 0)
    /\ (SmoothedRead /\ depth = 1) => (rd.out = rd.raw /\ filt = rd.raw)

\* the first /ph after a fit, reading 2.1 V
C6_Witness ==
    /\ req.route = "/ph"
    /\ depth = 1
    /\ prefs.has # {}
    /\ rd.raw = Rat(21, 10)
    /\ variant = "twopage"

(* C7: whenever the filter was NAN on entry (first read after start-up or *)
(* after a reset), the smoothed read returns the trimmed mean unchanged.   *)
C7_SmootherSeeding == (SmoothedRead /\ rd.seeded) => rd.out = rd.raw

\* a seeded read in the quadratic sketch, through /phv
C7_Witness ==
    /\ variant = "quadratic"
    /\ req.route = "/phv"
    /\ rd.seeded
    /\ rd.out = Rat(21, 10)

(* C8: /setcal2 with both arguments: "Voltages must be > 0" iff V4 <= 0   *)
(* or V7 <= 0; otherwise "too close" iff |V4 - V7| < 0.01; otherwise the   *)
(* fit is saved. A difference of exactly 0.01 is accepted.                 *)
C8_TwoPointValidation ==
    (req.route = "/setcal2" /\ req.has = {"v4", "v7"}) =>
        LET nonpos == Le(req.v4, Zero) \/ Le(req.v7, Zero)
            close == Lt(fabs(Sub(req.v4, req.v7)), Rat(1, 100))
        IN  /\ (resp.text = MsgInvalidInput) <=> nonpos
            /\ ~nonpos => ((resp.text = MsgDegenerate2) <=> close)
            /\ (~nonpos /\ ~close) => resp.code = 200
            /\ resp.code = 200 => (~nonpos /\ ~close)

\* V4 = 2.000, V7 = 2.010: exactly 0.01 apart, saved
C8_Witness ==
    /\ req.route = "/setcal2"
    /\ req.v4 = Rat(2, 1)
    /\ req.v7 = Rat(201, 100)
    /\ req.has = {"v4", "v7"}
    /\ resp.code = 200

(* C9: /setcal3 with all arguments: "Voltages must be > 0" if any of V4,  *)
(* V7, V9 is <= 0; otherwise "too close" if any of the three pairs differs *)
(* by less than 0.01; a positive triple pairwise at least 0.01 apart gets  *)
(* neither reply.                                                          *)
C9_ThreePointValidation ==
    (req.route = "/setcal3" /\ req.has = ArgNames) =>
        LET nonpos == Le(req.v4, Zero) \/ Le(req.v7, Zero) \/ Le(req.v9, Zero)
            close == \/ Lt(fabs(Sub(req.v4, req.v7)), Rat(1, 100))
                     \/ Lt(fabs(Sub(req.v7, req.v9)), Rat(1, 100))
                     \/ Lt(fabs(Sub(req.v4, req.v9)), Rat(1, 100))
        IN  /\ nonpos => resp.text = MsgInvalidInput
            /\ (~nonpos /\ close) => resp.text = MsgDegenerate3
            /\ (~nonpos /\ ~close) => resp.text \notin {MsgInvalidInput, MsgDegenerate3}

\* rejected only because V9 and V4 coincide (V4 = V9 = 2.000, V7 = 2.010)
C9_Witness ==
    /\ req.route = "/setcal3"
    /\ req.has = ArgNames
    /\ req.v4 = Rat(2, 1)
    /\ req.v7 = Rat(201, 100)
    /\ req.v9 = Rat(2, 1)
    /\ resp.text = MsgDegenerate3

\* a three-point request, all arguments present, two of them identical
Duplicate(rq) ==
    /\ rq.route = "/setcal3"
    /\ rq.has = ArgNames
    /\ (rq.v4 = rq.v7 \/ rq.v7 = rq.v9 \/ rq.v4 = rq.v9)

(* C10 as stated: in the quadratic sketch a three-point fit with two      *)
(* identical voltages is answered "Could not solve quadratic".             *)
C10_DuplicateIsSingular ==
    (variant = "quadratic" /\ Duplicate(req)) => resp.text = MsgSingular

(* C10 amended: in the quadratic sketch a three-point fit with two        *)
(* identical voltages is rejected and the globals and the store are left   *)
(* unchanged, but the reply is "Voltages must be > 0" or "Two voltages are *)
(* too close", sent before the solver is called; the solver itself returns *)
(* false on such points.                                                   *)
C10_DuplicateIsRejectedEarlier ==
    [][(variant = "quadratic" /\ Duplicate(req')) =>
          /\ resp'.code = 400
          /\ resp'.text \in {MsgInvalidInput, MsgDegenerate3}
          /\ ~solveQuadraticFrom3Points(req'.v4, PH4, req'.v7, PH7, req'.v9, PH9).ok
          /\ g' = g
          /\ prefs' = prefs]_vars

\* V4 = V9 = 2.000 V rejected as too close while a quadratic model is active
C10_Witness ==
    /\ variant = "quadratic"
    /\ Duplicate(req)
    /\ Gt(req.v4, Zero)
    /\ req.v4 = req.v9
    /\ resp.text = MsgDegenerate3
    /\ g.useQuadratic

\* tolerance of the calibration checks
Tol == Rat(1, 10000)
Within(x, y) == Le(fabs(Sub(x, y)), Tol)

(* C11: after every accepted two-point fit the active model evaluates to  *)
(* 7.00 at V7 and to 4.01 at V4, within 1e-4.                              *)
C11_TwoPointReproduces ==
    (req.route = "/setcal2" /\ resp.code = 200) =>
        /\ Within(evaluate(variant, g, req.v7), PH7)
        /\ Within(evaluate(variant, g, req.v4), PH4)

\* the fit on V4 = 2.600, V7 = 2.100
C11_Witness ==
    /\ req.route = "/setcal2"
    /\ resp.code = 200
    /\ req.v4 = Rat(26, 10)
    /\ req.v7 = Rat(21, 10)
    /\ evaluate(variant, g, Rat(21, 10)) = PH7
(* C12: after every accepted three-point fit of the piecewise sketches    *)
(* both lines give 7.00 at V7, and the active model evaluates to 4.01 at   *)
(* V4, to 7.00 at V7 and to 9.18 at V9, within 1e-4.                       *)
C12_ThreePointReproduces ==
    BuiltTwoLines =>
        /\ Within(lowLine(g, req.v7), PH7)
        /\ Within(highLine(g, req.v7), PH7)
        /\ Within(evaluate(variant, g, req.v4), PH4)
        /\ Within(evaluate(variant, g, req.v7), PH7)
        /\ Within(evaluate(variant, g, req.v9), PH9)
\* the documented default of each key, and the global each key is loaded into
DefaultBool == [two |-> FALSE, typ |-> TRUE, quad |-> FALSE]
DefaultFloat ==
    [v7 |-> Rat(2100, 1000),
     mL |-> Rat(-249, 100), bL |-> Rat(104725, 10000),
     mH |-> Rat(-249, 100), bH |-> Rat(104725, 10000),
     m |-> Rat(-249, 100), b |-> Rat(104725, 10000),
     qa |-> Zero, qb |-> Rat(-249, 100), qc |-> Rat(104725, 10000)]

KeyedGlobals(gl) ==
    IF variant \in Piecewise
    THEN [two |-> gl.useTwoLines, typ |-> gl.typicalDirection, v7 |-> gl.v7_break,
          mL |-> gl.mLow, bL |-> gl.bLow, mH |-> gl.mHigh, bH |-> gl.bHigh]
    ELSE [quad |-> gl.useQuadratic, m |-> gl.linM, b |-> gl.linB,
          qa |-> gl.qa, qb |-> gl.qb, qc |-> gl.qc]

LoadedPerKey(gl, p) ==
    \A k \in DOMAIN KeyedGlobals(gl) :
        KeyedGlobals(gl)[k] =
            IF k \in BoolKeys
            THEN (IF k \in p.has THEN p.b[k] ELSE DefaultBool[k])
            ELSE (IF k \in p.has THEN p.f[k] ELSE DefaultFloat[k])

(* C13: the load at start-up gives every global the stored value of its   *)
(* key if the key is in the store and the documented default otherwise,    *)
(* key by key; on an empty store the result is the one-line (linear)       *)
(* state with slope -2.49 and intercept 10.4725.                           *)
C13_LoadFallsBackPerKey ==
    [][(pc = "boot" /\ pc' = "idle") =>
          /\ LoadedPerKey(g', prefs)
          /\ prefs.has = {} =>
                 IF variant \in Piecewise
                 THEN ~g'.useTwoLines /\ g'.mLow = Rat(-249, 100)
                      /\ g'.bLow = Rat(104725, 10000)
                 ELSE ~g'.useQuadratic /\ g'.linM = Rat(-249, 100)
                      /\ g'.linB = Rat(104725, 10000)]_vars

\* loaded from a store that holds the first three keys of an interrupted save
C13_Witness ==
    /\ variant = "twopage"
    /\ pc = "idle"
    /\ req = NoReq
    /\ prefs.has = {"two", "typ", "v7"}
    /\ g.v7_break = prefs.f["v7"]
    /\ g.v7_break # Rat(2100, 1000)
    /\ g.mLow = Rat(-249, 100)
\* the Active state the discriminant stands for
Active(gl) ==
    IF variant \in Piecewise
    THEN (IF gl.useTwoLines THEN "TwoLineActive" ELSE "OneLineActive")
    ELSE (IF gl.useQuadratic THEN "QuadraticActive" ELSE "LinearActive")

(* C14: a served request never takes the engine back to the state before  *)
(* the load; a successful two-point fit leads to OneLineActive or          *)
(* LinearActive, a successful three-point fit to TwoLineActive or          *)
(* QuadraticActive, and /ph, /phv, /cal and every rejected fit leave the   *)
(* discriminant as it was.                                                 *)
C14_CalibrationStateMachine ==
    [][(pc = "idle" /\ resp'.code # 0) =>
          /\ pc' = "idle"
          /\ Active(g') =
                 IF resp'.code = 200 /\ req'.route = "/setcal2"
                 THEN (IF variant \in Piecewise THEN "OneLineActive" ELSE "LinearActive")
                 ELSE IF resp'.code = 200 /\ req'.route = "/setcal3"
                 THEN (IF variant \in Piecewise THEN "TwoLineActive" ELSE "QuadraticActive")
                 ELSE Active(g)]_vars

\* a two-point fit has taken the quadratic sketch from QuadraticActive back
\* to LinearActive
C14_Witness ==
    /\ variant = "quadratic"
    /\ pc = "idle"
    /\ req.route = "/setcal2"
    /\ resp.code = 200
    /\ Active(g) = "LinearActive"
    /\ "qa" \in prefs.has
\* the voltages evaluation is examined at in each sketch (the quadratic is
\* examined on the coarser grid, where its exact value stays representable)
PureVolts ==
    IF variant \in Piecewise THEN EvalVolts
    ELSE {Rat(1, 1), Rat(2, 1), Rat(201, 100), Rat(21, 10), Rat(3, 1), Rat(4, 1)}

(* C15: evaluation yields a number for every model that is loaded or     *)
(* saved and every voltage; serving                                        *)
(* /ph leaves the calibration globals and the store unchanged and the      *)
(* filter exactly as the smoothed read left it; and as long as no fit      *)
(* succeeds, every voltage keeps evaluating to the same pH.                *)
C15_EvaluateIsPure ==
    [][/\ (pc = "boot" \/ g' # g) =>
              \A v \in PureVolts : ~isnan(evaluate(variant, g', v))
       /\ (pc = "idle" /\ req'.route = "/ph") =>
              (g' = g /\ prefs' = prefs /\ filt' = rd'.out)
       /\ (pc = "idle" /\ pc' = "idle" /\ ~(resp'.code = 200 /\ req'.route \in FitRoutes)) =>
              \/ g' = g
              \/ \A v \in PureVolts : evaluate(variant, g', v) = evaluate(variant, g, v)]_vars

\* /ph served under a fitted quadratic model with the filter already seeded
C15_Witness ==
    /\ variant = "quadratic"
    /\ req.route = "/ph"
    /\ g.useQuadratic
    /\ ~rd.seeded
    /\ filt = rd.out
    /\ ~isnan(evaluate(variant, g, Rat(21, 10)))
\* sequences of N bus voltages: steady, one spike, one dip, extremes that
\* occur several times, a ramp
TrimSeqs ==
    SampleSeqs \cup
    {Steady(Rat(21, 10)),
     Spiked(Rat(2, 1), Rat(1, 10), {1}),
     Spiked(Rat(2, 1), Rat(38, 10), 1..(N - 1)),
     [i \in 1..N |-> IF i <= 4 THEN Rat(1, 1) ELSE IF i >= N - 2 THEN Rat(3, 1) ELSE Rat(2, 1)],
     [i \in 1..N |-> Rat(i, 10)]}

\* sequences of N_ADC counts of the same kinds, the ends of the range included
AdcSeqs ==
    {[i \in 1..N_ADC |-> 2048],
     [i \in 1..N_ADC |-> 0],
     [i \in 1..N_ADC |-> 4095],
     [i \in 1..N_ADC |-> IF i = 9 THEN 4095 ELSE 2048],
     [i \in 1..N_ADC |-> IF i <= 3 THEN 0 ELSE IF i >= N_ADC - 1 THEN 4095 ELSE 2000],
     [i \in 1..N_ADC |-> 100 * i]}

\* the sum of the first n readings added to acc, taken from the last one down
RECURSIVE SumRat(_, _, _)
SumRat(s, n, acc) ==
    IF n = 0 THEN acc
    ELSE LET a == Add(s[n], acc) IN IF a = a THEN SumRat(s, n - 1, a) ELSE acc

RECURSIVE SumInt(_, _, _)
SumInt(s, n, acc) ==
    IF n = 0 THEN acc
    ELSE LET a == s[n] + acc IN IF a = a THEN SumInt(s, n - 1, a) ELSE acc

Range(s) == {s[i] : i \in DOMAIN s}
MinRat(s) == CHOOSE x \in Range(s) : \A y \in Range(s) : Le(x, y)
MaxRat(s) == CHOOSE x \in Range(s) : \A y \in Range(s) : Le(y, x)
MinInt(s) == CHOOSE x \in Range(s) : \A y \in Range(s) : x <= y
MaxInt(s) == CHOOSE x \in Range(s) : \A y \in Range(s) : y <= x

\* (sum of all readings - minimum - maximum) / (count - 2)
TrimmedRat(s) ==
    Div(Sub(Sub(SumRat(s, Len(s), Zero), MinRat(s)), MaxRat(s)), Rat(Len(s) - 2, 1))
TrimmedInt(s) ==
    Rat(SumInt(s, Len(s), 0) - MinInt(s) - MaxInt(s), Len(s) - 2)

\* the trimmed means the requests can read
TrimmedReads == {Mul(TrimmedRat(s), VOLTAGE_SCALE) : s \in SampleSeqs}

\* the sampler on the sequences above against the formula
BusSamplerTrims == \A s \in TrimSeqs : trimmedMean(s) = TrimmedRat(s)
AdcSamplerTrims ==
    \A s \in AdcSeqs :
        readVoltageRawTrimmedADC(s) = Div(Mul(TrimmedInt(s), Rat(33, 10)), Rat(4095, 1))
EqualReadings ==
    /\ trimmedMean(Steady(Rat(21, 10))) = Rat(21, 10)
    /\ readVoltageRawTrimmedADC([i \in 1..N_ADC |-> 4095]) = Rat(33, 10)

(* C16: over N = 20 bus voltages, and over N = 25 ADC counts, the sampler *)
(* returns (sum of all readings - minimum - maximum) / (N - 2), so one     *)
(* occurrence of the smallest and one of the largest value is removed      *)
(* also when an extreme value occurs several times; N equal readings x     *)
(* give x; every voltage a request reads is such a trimmed mean.           *)
C16_TrimmedMean ==
    /\ N >= 3 /\ N_ADC >= 3
    /\ BusSamplerTrims
    /\ AdcSamplerTrims
    /\ EqualReadings
    /\ req.route \in {"/ph", "/phv"} => rd.raw \in TrimmedReads

\* /phv of the twopage sketch shows the trimmed mean of a read in which the
\* largest value occurs twice: (18 * 2.0 + 2 * 3.8 - 2.0 - 3.8) / 18 = 2.1
C16_Witness ==
    /\ variant = "twopage"
    /\ req.route = "/phv"
    /\ rd.out = Rat(21, 10)
    /\ rd.out = TrimmedRat(Spiked(Rat(2, 1), Rat(38, 10), {3, 7}))
\* the one-line state holds one line twice, in memory and in the store
OneLineShared ==
    variant \in Piecewise =>
        /\ ~g.useTwoLines => (g.mLow = g.mHigh /\ g.bLow = g.bHigh)
        /\ ~getBool(prefs, "two", FALSE) =>
               /\ ("mL" \in prefs.has) = ("mH" \in prefs.has)
               /\ ("bL" \in prefs.has) = ("bH" \in prefs.has)
               /\ prefs.f["mL"] = prefs.f["mH"]
               /\ prefs.f["bL"] = prefs.f["bH"]

SelectorOnly(gl) ==
    [gl EXCEPT !.mLow = Zero, !.bLow = Zero, !.mHigh = Zero, !.bHigh = Zero]

C19_BreakpointIsPH7 ==
    (variant \in Piecewise /\ pc = "idle") =>
        /\ Within(lowLine(g, g.v7_break), PH7)
        /\ Within(highLine(g, g.v7_break), PH7)
        /\ Within(evaluate(variant, g, g.v7_break), PH7)

\* a*v^2 + b*v + c
Poly(a, b, c, v) == Add(Add(Mul(a, Mul(v, v)), Mul(b, v)), c)

(* C20: after every accepted three-point fit of the quadratic sketch the  *)
(* saved qa, qb, qc are the solver's a, b, c, the polynomial               *)
(* qa*V^2 + qb*V + qc is exactly 4.01 at V4, 7.00 at V7 and 9.18 at V9,    *)
(* and every voltage evaluates to that one polynomial.                     *)
C20_QuadraticInterpolates ==
    (variant = "quadratic" /\ req.route = "/setcal3" /\ resp.code = 200) =>
        LET q == solveQuadraticFrom3Points(req.v4, PH4, req.v7, PH7, req.v9, PH9)
        IN  /\ g.useQuadratic
            /\ q.ok /\ g.qa = q.a /\ g.qb = q.b /\ g.qc = q.c
            /\ Poly(g.qa, g.qb, g.qc, req.v4) = Rat(401, 100)
            /\ Poly(g.qa, g.qb, g.qc, req.v7) = Rat(700, 100)
            /\ Poly(g.qa, g.qb, g.qc, req.v9) = Rat(918, 100)
            /\ \A v \in PureVolts \cup {req.v4, req.v7, req.v9} :
                   evaluate(variant, g, v) = Poly(g.qa, g.qb, g.qc, v)

\* the fit through V4 = 2.600, V7 = 2.100, V9 = 1.800
C20_Witness ==
    /\ variant = "quadratic"
    /\ req.route = "/setcal3"
    /\ resp.code = 200
    /\ req.v4 = Rat(26, 10) /\ req.v7 = Rat(21, 10) /\ req.v9 = Rat(18, 10)
    /\ evaluate(variant, g, Rat(18, 10)) = PH9
    /\ g.qa # Zero

(* C21: in the twopage sketch /phv returns the trimmed mean itself and    *)
(* leaves the filter as it was, so the next /ph returns, for each sequence *)
(* of samples, what it would have returned without the /phv; the filter    *)
(* changes only in a /ph request, in a successful fit, or in a restart.    *)
C21_OnlyMainPageSmooths ==
    [][(variant = "twopage" /\ pc = "idle") =>
          /\ req'.route = "/phv" =>
                 /\ filt' = filt
                 /\ rd'.out = rd'.raw
                 /\ rd'.raw \in TrimmedReads
                 /\ \A s \in SampleSeqs :
                        readForPH(variant, filt', s) = readForPH(variant, filt, s)
          /\ filt' # filt =>
                 \/ req'.route = "/ph"
                 \/ (req'.route \in FitRoutes /\ resp'.code = 200)
                 \/ pc' = "boot"
      ]_vars

\* /phv has shown 2.1 V while the filter holds 2.0 V from an earlier /ph
C21_Witness ==
    /\ variant = "twopage"
    /\ req.route = "/phv"
    /\ rd.out = Rat(21, 10)
    /\ filt = Rat(2, 1)
    /\ depth = 1

(* C22: whenever the device is loaded and between requests, every         *)
(* calibration global equals the value stored under its key if the key is  *)
(* present and the documented default if it is absent, so a restart        *)
(* followed by the load gives the same globals and the same pH at every    *)
(* voltage.                                                                *)
C22_MemoryMatchesStore ==
    pc = "idle" =>
        /\ LoadedPerKey(g, prefs)
        /\ Reloaded = g
        /\ \A v \in PureVolts :
               evaluate(variant, Reloaded, v) = evaluate(variant, g, v)

\* a rejected fit served after a two-point fit in the quadratic sketch, whose
\* store holds quad, m, b and no quadratic coefficient
C22_Witness ==
    /\ variant = "quadratic"
    /\ pc = "idle"
    /\ req.route \in FitRoutes
    /\ resp.code = 400
    /\ prefs.has = {"quad", "m", "b"}
    /\ g.linM = prefs.f["m"]
    /\ g.qc = Rat(104725, 10000)

\* the checks of handleSetCal3 that precede the solver: all three voltages
\* positive, every pair at least 0.01 V apart
PassesChecks(a4, a7, a9) ==
    /\ Gt(a7, Zero) /\ Gt(a4, Zero) /\ Gt(a9, Zero)
    /\ Ge(fabs(Sub(a4, a7)), TooClose)
    /\ Ge(fabs(Sub(a9, a7)), TooClose)
    /\ Ge(fabs(Sub(a9, a4)), TooClose)

\* the three Lagrange denominators of the points x1, x2, x3
Denominators(x1, x2, x3) ==
    {Mul(Sub(x1, x2), Sub(x1, x3)),
     Mul(Sub(x2, x1), Sub(x2, x3)),
     Mul(Sub(x3, x1), Sub(x3, x2))}

\* voltages 0.005, 0.01 and 0.02 V apart, and far apart
SolverGrid ==
    {Zero, Rat(199, 100), Rat(2, 1), Rat(2005, 1000), Rat(201, 100), Rat(202, 100),
     Rat(3, 1)}

SeparatedTriplesSolve ==
    \A a4 \in SolverGrid : \A a7 \in SolverGrid : \A a9 \in SolverGrid :
        PassesChecks(a4, a7, a9) =>
            /\ \A d \in Denominators(a4, a7, a9) : Ge(fabs(d), Rat(1, 10000))
            /\ ~singular(a4, a7, a9)

\* the smallest denominator the checks let through is 1e-4 itself
SmallestDenominator ==
    /\ PassesChecks(Rat(2, 1), Rat(201, 100), Rat(202, 100))
    /\ Rat(-1, 10000) \in Denominators(Rat(2, 1), Rat(201, 100), Rat(202, 100))

(* C23: in the quadratic sketch every triple of voltages that is positive *)
(* and pairwise at least 0.01 V apart has three Lagrange denominators of   *)
(* magnitude at least 1e-4, the solver returns true on it, and no          *)
(* /setcal3 request is answered "Could not solve quadratic": a request     *)
(* that passes the two checks is answered 200.                             *)
C23_SolverFailureUnreachable ==
    /\ SeparatedTriplesSolve
    /\ SmallestDenominator
    /\ (variant = "quadratic" /\ req.route = "/setcal3") =>
           /\ resp.text # MsgSingular
           /\ (req.has = ArgNames /\ PassesChecks(req.v4, req.v7, req.v9)) =>
                  /\ resp.code = 200
                  /\ solveQuadraticFrom3Points(req.v4, PH4, req.v7, PH7, req.v9, PH9).ok
                  /\ \A d \in Denominators(req.v4, req.v7, req.v9) :
                         Ge(fabs(d), Rat(1, 10000))

\* V4 = 2.000, V7 = 2.010, V9 = 3.000: the closest pair is exactly 0.01 V
\* apart, the checks pass and the fit is saved
C23_Witness ==
    /\ variant = "quadratic"
    /\ req.route = "/setcal3"
    /\ resp.code = 200
    /\ req.v4 = Rat(2, 1) /\ req.v7 = Rat(201, 100) /\ req.v9 = Rat(3, 1)
    /\ PassesChecks(req.v4, req.v7, req.v9)
    /\ fabs(Sub(req.v7, req.v4)) = TooClose

\* the keys of the quadratic model and of the linear model hold in p2 what
\* they hold in p1
SameStored(keys, p1, p2) ==
    \A k \in keys : (k \in p2.has) = (k \in p1.has) /\ p2.f[k] = p1.f[k]

(* C24: in the quadratic sketch a successful two-point fit leaves qa, qb, *)
(* qc as they were in memory and in the store, so /cal prints the same     *)
(* three coefficients before and after it (the stored ones, when they are  *)
(* stored), while every voltage evaluates to linM*V + linB; a successful   *)
(* three-point fit leaves linM, linB and the stored m, b as they were.     *)
C24_FitsWriteOwnFields ==
    [][(variant = "quadratic" /\ pc = "idle" /\ pc' = "idle" /\ resp'.code = 200) =>
          /\ req'.route = "/setcal2" =>
                 /\ g'.qa = g.qa /\ g'.qb = g.qb /\ g'.qc = g.qc
                 /\ SameStored({"qa", "qb", "qc"}, prefs, prefs')
                 /\ handleCalJson(variant, g').qa = handleCalJson(variant, g).qa
                 /\ handleCalJson(variant, g').qb = handleCalJson(variant, g).qb
                 /\ handleCalJson(variant, g').qc = handleCalJson(variant, g).qc
                 /\ "qa" \in prefs'.has =>
                        handleCalJson(variant, g').qa = String(prefs'.f["qa"], 10)
                 /\ ~handleCalJson(variant, g').quad
                 /\ \A v \in PureVolts :
                        evaluate(variant, g', v) = Add(Mul(g'.linM, v), g'.linB)
          /\ req'.route = "/setcal3" =>
                 /\ g'.linM = g.linM /\ g'.linB = g.linB
                 /\ SameStored({"m", "b"}, prefs, prefs')
                 /\ handleCalJson(variant, g').m = handleCalJson(variant, g).m
                 /\ handleCalJson(variant, g').b = handleCalJson(variant, g).b
      ]_vars

\* a two-point fit saved after a three-point fit: the linear model is
\* active, the quadratic coefficients are still stored and /cal prints them
C24_Witness ==
    /\ variant = "quadratic"
    /\ req.route = "/setcal2"
    /\ resp.code = 200
    /\ ~g.useQuadratic
    /\ {"qa", "qb", "qc", "m", "b"} \subseteq prefs.has
    /\ g.qa # Zero
    /\ prefs.f["qa"] = g.qa
    /\ handleCalJson(variant, g).qa = String(prefs.f["qa"], 10)
    /\ handleCalJson(variant, g).qa # String(Zero, 10)

====
